---- MODULE Spec2Model ----
(***************************************************************************)
(* MentorIQ backend: the field extractors (extract_name, extract_email,    *)
(* extract_user_type) and the response composer built on them              *)
(* (MentorIQGroqService.get_contextual_response behind main-groq.py, and   *)
(* the flat endpoints of app.py).                                          *)
(*                                                                         *)
(* A Python str is a sequence of one-character strings.  None is the       *)
(* one-element sequence None below, which no text can equal.               *)
(***************************************************************************)
EXTENDS Integers, Sequences, FiniteSets, TLC

None == <<"<None>">>

\* Python truthiness of an Optional[str]: None and "" are falsy.
Truthy(v) == v # None /\ v # <<>>

(***************************************************************************)
(* Character classes of the regular expressions.                           *)
(***************************************************************************)
LowerSeq == <<"a","b","c","d","e","f","g","h","i","j","k","l","m",
              "n","o","p","q","r","s","t","u","v","w","x","y","z">>
UpperSeq == <<"A","B","C","D","E","F","G","H","I","J","K","L","M",
              "N","O","P","Q","R","S","T","U","V","W","X","Y","Z">>
LowerLetters == {LowerSeq[i] : i \in 1..26}
UpperLetters == {UpperSeq[i] : i \in 1..26}
Letters == LowerLetters \cup UpperLetters
Digits == {"0","1","2","3","4","5","6","7","8","9"}

\* \s
SpaceChars == {" ", "\t", "\n"}
IsSpace(c) == c \in SpaceChars
\* [a-zA-Z]
IsLetter(c) == c \in Letters
\* [a-zA-Z\s] and [A-Za-z\s]
NameChars == Letters \cup SpaceChars
IsNameChar(c) == c \in NameChars
\* \w, the class that decides \b
IsWord(c) == c \in Letters \cup Digits \cup {"_"}
\* [A-Za-z0-9._%+-]
LocalChars == Letters \cup Digits \cup {".", "_", "%", "+", "-"}
IsLocalChar(c) == c \in LocalChars
\* [A-Za-z0-9.-]
DomainChars == Letters \cup Digits \cup {".", "-"}
IsDomainChar(c) == c \in DomainChars
\* [A-Za-z]: the class a top-level domain is meant to be drawn from
IsAlphaTldChar(c) == c \in Letters
\* [A-Z|a-z]: the class the pattern actually uses
TldChars == Letters \cup {"|"}
IsTldChar(c) == c \in TldChars

LowerOf == [c \in UpperLetters |-> LowerSeq[CHOOSE i \in 1..26 : UpperSeq[i] = c]]

\* str.lower(), one character
ToLower(c) == IF c \in UpperLetters THEN LowerOf[c] ELSE c

\* str.lower()
Lower(text) == [i \in 1..Len(text) |-> ToLower(text[i])]

Min(S) == CHOOSE x \in S : \A y \in S : x <= y
Max(S) == CHOOSE x \in S : \A y \in S : x >= y

\* `needle in hay`
Contains(hay, needle) ==
    \E i \in 1..(Len(hay) - Len(needle) + 1) :
        SubSeq(hay, i, i + Len(needle) - 1) = needle

\* first index >= i whose character is outside the class cls, Len+1 if none:
\* where a greedy [cls]* that starts at i stops
RunEnd(text, i, cls) ==
    LET bad == {k \in i..Len(text) : text[k] \notin cls}
    IN  IF bad = {} THEN Len(text) + 1 ELSE Min(bad)

\* str.strip()
Strip(s) ==
    LET keep == {k \in 1..Len(s) : ~IsSpace(s[k])}
    IN  IF keep = {} THEN <<>> ELSE SubSeq(s, Min(keep), Max(keep))

\* \b at the gap before index p (1-based; p = Len+1 is the end of the text)
WordBoundary(text, p) ==
    LET before == p > 1 /\ IsWord(text[p - 1])
        after  == p <= Len(text) /\ IsWord(text[p])
    IN  before # after


(***************************************************************************)
(* extract_name                                                            *)
(***************************************************************************)
MaxNameLen == 50

\* (?:i'm|i am|my name is|call me), matched under re.IGNORECASE
TriggerPhrases == { <<"i","'","m">>,
                    <<"i"," ","a","m">>,
                    <<"m","y"," ","n","a","m","e"," ","i","s">>,
                    <<"c","a","l","l"," ","m","e">> }

\* index just past the trigger phrase that matches at i, 0 if none does
TriggerEndAt(text, i) ==
    LET ms == {p \in TriggerPhrases :
                  /\ i + Len(p) - 1 <= Len(text)
                  /\ Lower(SubSeq(text, i, i + Len(p) - 1)) = p}
    IN  IF ms = {} THEN 0 ELSE i + Len(CHOOSE p \in ms : TRUE)

\* the group cut at the end of its first word
NameGroupAt_OneWord(text, i) ==
    LET j == TriggerEndAt(text, i)
    IN  IF j = 0 \/ j > Len(text) THEN None
        ELSE IF ~IsSpace(text[j]) THEN None
        ELSE LET w == RunEnd(text, j, SpaceChars)
                 e == RunEnd(text, w, Letters)
             IN  IF e > w THEN SubSeq(text, w, e - 1)
                 ELSE IF w - j >= 2 THEN SubSeq(text, w - 1, w - 1)
                 ELSE None

\* group(1) of (?:...)\s+([a-zA-Z\s]+) matched at i, None if it does not match
\* there.  \s+ is greedy and takes the whole whitespace run; when no letter
\* follows it gives one whitespace character back to the group.
NameGroupAt(text, i) ==
    LET j == TriggerEndAt(text, i)
    IN  IF j = 0 \/ j > Len(text) THEN None
        ELSE IF ~IsSpace(text[j]) THEN None
        ELSE LET w == RunEnd(text, j, SpaceChars)
                 e == RunEnd(text, w, NameChars)
             IN  IF e > w THEN SubSeq(text, w, e - 1)
                 ELSE IF w - j >= 2 THEN SubSeq(text, w - 1, w - 1)
                 ELSE None

\* re.search with the trigger pattern: group(1) of the leftmost match
TriggerGroup(text) ==
    LET hits == {i \in 1..Len(text) : NameGroupAt(text, i) # None}
    IN  IF hits = {} THEN None ELSE NameGroupAt(text, Min(hits))

\* b is words separated by whitespace runs, each word one character of the
\* class first followed by one or more of the class rest
WordsMatch(b, first, rest) ==
    /\ Len(b) >= 1
    /\ IsLetter(b[1]) /\ IsLetter(b[Len(b)])
    /\ \A k \in 1..Len(b) :
          \/ IsSpace(b[k])
          \/ /\ IsLetter(b[k])
             /\ IF k = 1 \/ IsSpace(b[k - 1])
                THEN b[k] \in first /\ k < Len(b) /\ b[k + 1] \in rest
                ELSE b[k] \in rest

\* ^([A-Z][a-z]+(?:\s+[A-Z][a-z]+)*)$ as written, case-sensitive
CapitalizedWords(b) == WordsMatch(b, UpperLetters, LowerLetters)

\* the same pattern as re.IGNORECASE matches it: [A-Z] and [a-z] both accept
\* either case
CapitalizedWordsIgnoreCase(b) == WordsMatch(b, Letters, Letters)

\* the whole-line pattern searched without re.IGNORECASE
WholeLineGroupCaseSensitive(text) ==
    LET n == Len(text)
        m == IF n >= 1 /\ text[n] = "\n" THEN n - 1 ELSE n
        body == SubSeq(text, 1, m)
    IN  IF CapitalizedWords(body) THEN body ELSE None

\* re.search with the whole-line pattern: group(1), None if no match.  $ also
\* matches just before a final newline.
WholeLineGroup(text) ==
    LET n == Len(text)
        m == IF n >= 1 /\ text[n] = "\n" THEN n - 1 ELSE n
        body == SubSeq(text, 1, m)
    IN  IF CapitalizedWordsIgnoreCase(body) THEN body ELSE None

\* the length test off by one: len(name) <= 50
PostFilterOffByOne(name) ==
    /\ Len(name) <= MaxNameLen
    /\ Len(name) >= 1
    /\ \A k \in 1..Len(name) : IsNameChar(name[k])

\* len(name) < 50 and re.match(r'^[A-Za-z\s]+$', name)
PostFilter(name) ==
    /\ Len(name) < MaxNameLen
    /\ Len(name) >= 1
    /\ \A k \in 1..Len(name) : IsNameChar(name[k])

\* the loop over the patterns: the first group(1) that is there and whose
\* stripped text passes the filter is returned
FirstAccepted(g1, g2) ==
    IF g1 # None /\ PostFilter(Strip(g1)) THEN Strip(g1)
    ELSE IF g2 # None /\ PostFilter(Strip(g2)) THEN Strip(g2)
    ELSE None

\* the two patterns tried in the other order
extract_name_WholeLineFirst(text) ==
    FirstAccepted(WholeLineGroup(text), TriggerGroup(text))

extract_name(text) ==
    FirstAccepted(TriggerGroup(text), WholeLineGroup(text))

(***************************************************************************)
(* extract_email                                                           *)
(***************************************************************************)
\* ends (exclusive) of the top-level domains that can follow the dot at p:
\* two or more TLD characters and \b after the last one
TldEnds(text, p) ==
    {q \in (p + 3)..RunEnd(text, p + 1, TldChars) : WordBoundary(text, q)}

\* end (exclusive) of the match of
\* \b[A-Za-z0-9._%+-]+@[A-Za-z0-9.-]+\.[A-Z|a-z]{2,}\b that starts at s, 0 if
\* none.  The local part must run up to the @; the domain and then the TLD
\* are greedy, so the last usable dot and the longest TLD after it win.
EmailMatchAt(text, s) ==
    LET a == RunEnd(text, s, LocalChars)
    IN  IF ~WordBoundary(text, s) \/ a = s \/ a > Len(text) THEN 0
        ELSE IF text[a] # "@" THEN 0
        ELSE LET dEnd == RunEnd(text, a + 1, DomainChars)
                 dots == {p \in (a + 2)..(dEnd - 1) :
                             text[p] = "." /\ TldEnds(text, p) # {}}
             IN  IF dots = {} THEN 0 ELSE Max(TldEnds(text, Max(dots)))

extract_email(text) ==
    LET starts == {s \in 1..Len(text) : EmailMatchAt(text, s) # 0}
    IN  IF starts = {} THEN None
        ELSE SubSeq(text, Min(starts), EmailMatchAt(text, Min(starts)) - 1)

(***************************************************************************)
(* extract_user_type                                                       *)
(***************************************************************************)
Parent == <<"p","a","r","e","n","t">>
Child == <<"c","h","i","l","d">>
Kid == <<"k","i","d">>
Son == <<"s","o","n">>
Daughter == <<"d","a","u","g","h","t","e","r">>
Family == <<"f","a","m","i","l","y">>
Mentor == <<"m","e","n","t","o","r">>
Teach == <<"t","e","a","c","h">>
Coach == <<"c","o","a","c","h">>
Lead == <<"l","e","a","d">>
Engineer == <<"e","n","g","i","n","e","e","r">>
Help == <<"h","e","l","p">>

parent_keywords == {Parent, Child, Kid, Son, Daughter, Family}
mentor_keywords == {Mentor, Teach, Coach, Lead, Engineer, Help}

\* the two keyword tests in the other order
extract_user_type_MentorFirst(text) ==
    LET text_lower == Lower(text)
    IN  IF \E keyword \in mentor_keywords : Contains(text_lower, keyword)
        THEN Mentor
        ELSE IF \E keyword \in parent_keywords : Contains(text_lower, keyword)
        THEN Parent
        ELSE None

\* the keyword tests on the text as typed, without lower()
extract_user_type_CaseSensitive(text) ==
    IF \E keyword \in parent_keywords : Contains(text, keyword)
    THEN Parent
    ELSE IF \E keyword \in mentor_keywords : Contains(text, keyword)
    THEN Mentor
    ELSE None

extract_user_type(text) ==
    LET text_lower == Lower(text)
    IN  IF \E keyword \in parent_keywords : Contains(text_lower, keyword)
        THEN Parent
        ELSE IF \E keyword \in mentor_keywords : Contains(text_lower, keyword)
        THEN Mentor
        ELSE None


(***************************************************************************)
(* The composer of MentorIQGroqService (src/services/groq_service.py).     *)
(* A response text is a sequence of fragments: literal pieces of the       *)
(* templates and the characters of the values formatted into them.  A dict *)
(* is a record; field_updates is the set of its <<key, value>> pairs.      *)
(***************************************************************************)
HistoryWindow == 3

Program == <<"p","r","o","g","r","a","m">>
Team == <<"t","e","a","m">>
Find == <<"f","i","n","d">>
Robotics == <<"r","o","b","o","t","i","c","s">>
DotEdu == <<".","e","d","u">>

ContainsAny(text, words) == \E word \in words : Contains(text, word)

\* the first three entries taken where the last three should be
LastMessages_FirstThree(history) ==
    SubSeq(history, 1, Min({HistoryWindow, Len(history)}))

\* conversation_history[-3:]
LastMessages(history) ==
    SubSeq(history, Max({1, Len(history) - HistoryWindow + 1}), Len(history))

\* email.split('@')[1] if '@' in email else ''
EmailDomain(e) ==
    LET ats == {k \in 1..Len(e) : e[k] = "@"}
    IN  IF ats = {} THEN <<>>
        ELSE LET rest == SubSeq(e, Min(ats) + 1, Len(e))
                 more == {k \in 1..Len(rest) : rest[k] = "@"}
             IN  IF more = {} THEN rest ELSE SubSeq(rest, 1, Min(more) - 1)

\* truthiness of the user_data dict: None and {} are falsy
UserDataTruthy(user_data) ==
    /\ user_data.given
    /\ \E k \in {"name", "email", "userType"} : user_data[k] # None

\* json.dumps(user_data) if user_data else 'None yet'
UserDataText(user_data) ==
    LET Item(k) == IF user_data[k] = None THEN <<>>
                   ELSE <<"\"", k, "\": \"">> \o user_data[k] \o <<"\",">>
    IN  IF UserDataTruthy(user_data)
        THEN <<"{">> \o Item("name") \o Item("email") \o Item("userType") \o <<"}">>
        ELSE <<"None yet">>

build_system_prompt(page_context, user_data) ==
    IF page_context = "landing"
    THEN <<"You are an AI assistant for MentorIQ [...]",
           "CURRENT CONTEXT: Landing Page Program Discovery [...]">>
    ELSE IF page_context = "registration"
    THEN <<"You are an AI assistant for MentorIQ [...]",
           "CURRENT CONTEXT: Bidirectional Registration System [...]",
           "CURRENT USER DATA: ">> \o UserDataText(user_data)
    ELSE <<"You are an AI assistant for MentorIQ [...]">>

get_relevant_knowledge(query, page_context) ==
    LET query_lower == Lower(query)
        sections ==
            IF page_context = "landing"
            THEN (IF ContainsAny(query_lower, {Program, Team, Find, Robotics})
                  THEN <<"PROGRAM DISCOVERY: [...]">> ELSE <<>>)
                 \o (IF ContainsAny(query_lower, {Parent, Child, Kid})
                     THEN <<"PARENT USER CONTEXT: [...]">> ELSE <<>>)
                 \o (IF ContainsAny(query_lower, {Mentor, Teach, Coach, Engineer})
                     THEN <<"MENTOR USER CONTEXT: [...]">> ELSE <<>>)
            ELSE IF page_context = "registration"
            THEN <<"REGISTRATION SYSTEM: [...]">>
            ELSE <<>>
    IN  IF sections # <<>> THEN sections
        ELSE <<"General MentorIQ platform knowledge available.">>

\* the messages argument of client.chat.completions.create
groq_messages(query, page_context, user_data, conversation_history) ==
    LET recent == LastMessages(conversation_history)
    IN  <<[role |-> "system",
           content |-> build_system_prompt(page_context, user_data)
                       \o <<"\n\nPLATFORM KNOWLEDGE:\n">>
                       \o get_relevant_knowledge(query, page_context)]>>
        \o [k \in 1..Len(recent) |->
               [role |-> IF recent[k].sender = "ai" THEN "assistant" ELSE "user",
                content |-> recent[k].content]]
        \o <<[role |-> "user", content |-> query]>>

\* the email left out of the dict
FieldUpdates_NoEmail(n, e, u) ==
    (IF Truthy(n) THEN {<<"name", n>>} ELSE {})
    \cup (IF Truthy(u) THEN {<<"userType", u>>} ELSE {})

\* the field_updates dict built from the three extracted values
FieldUpdates(n, e, u) ==
    (IF Truthy(n) THEN {<<"name", n>>} ELSE {})
    \cup (IF Truthy(e) THEN {<<"email", e>>} ELSE {})
    \cup (IF Truthy(u) THEN {<<"userType", u>>} ELSE {})

extract_fields_from_query(query) ==
    FieldUpdates(extract_name(query), extract_email(query),
                 extract_user_type(query))

ParentSuggestions ==
    <<"Tell me about program costs and schedules",
      "How do I evaluate mentor quality?",
      "What age groups do you serve?",
      "Take me to registration">>
MentorSuggestions ==
    <<"How does the platform save time?",
      "What support do new mentors get?",
      "Show me mentor success stories",
      "Create my mentor profile">>
WelcomeSuggestions ==
    <<"I'm a parent looking for programs",
      "I want to become a mentor",
      "Tell me about FLL and robotics",
      "How does your platform work?">>

generate_suggestions(query, page_context, ai_response) ==
    IF page_context = "landing"
    THEN LET query_lower == Lower(query)
         IN  IF ContainsAny(query_lower, {Parent, Child}) THEN ParentSuggestions
             ELSE IF ContainsAny(query_lower, {Mentor, Teach}) THEN MentorSuggestions
             ELSE WelcomeSuggestions
    ELSE <<>>

GroqParentTemplate ==
    <<"Perfect! I'd love to help you find the ideal FLL program for your child. MentorIQ connects families with amazing mentors and teams in your area.\n\nOur AI-powered platform makes it easy to discover programs that match your child's interests, your schedule, and your location. We focus on finding mentors who not only teach robotics skills but also inspire creativity and teamwork.\n\nTo get started with personalized recommendations, I'd suggest completing our quick registration. This helps us understand your specific needs and preferences.">>
GroqMentorTemplate ==
    <<"Wonderful! We're always excited to connect with passionate educators and professionals who want to make a difference in students' lives.\n\nMentorIQ is designed to save mentors like you 60%+ of administrative time through AI-powered tools, so you can focus on what matters most - inspiring and guiding your students.\n\nWhether you're looking to start your first FLL team or enhance an existing program, we provide the tools and community support you need.">>
GroqWelcomeTemplate ==
    <<"Welcome to MentorIQ! I'm here to help you discover amazing FLL programs and mentors.\n\nWhether you're a parent looking for the perfect robotics program for your child, or a mentor ready to inspire the next generation of innovators, our AI-powered platform makes connections simple and effective.\n\nWhat brings you to MentorIQ today?">>

handle_landing_fallback(query) ==
    LET query_lower == Lower(query)
    IN  IF ContainsAny(query_lower, {Parent, Child, Kid})
        THEN [response |-> GroqParentTemplate,
              suggestions |-> ParentSuggestions,
              context |-> "landing"]
        ELSE IF ContainsAny(query_lower, {Mentor, Teach, Engineer})
        THEN [response |-> GroqMentorTemplate,
              suggestions |-> MentorSuggestions,
              context |-> "landing"]
        ELSE [response |-> GroqWelcomeTemplate,
              suggestions |-> WelcomeSuggestions,
              context |-> "landing"]

GroqRegistrationFiller ==
    <<"I'm here to help you complete your registration! You can either fill out the form on the left, or just tell me your information and I'll take care of it.">>

GroqNameAck(n) == <<"Hi ">> \o n \o <<"! Great to meet you. ">>
GroqEduAck(domain) ==
    <<"I see you're from an educational institution (">> \o domain
    \o <<") - wonderful! ">>
GroqThanksAck == <<"Thanks for providing your email address! ">>
ParentAck ==
    <<"Wonderful! We're excited to help you find the perfect FLL program for your child.">>
MentorAck ==
    <<"Fantastic! We need more passionate mentors like you.">>

\* the body of handle_registration_fallback once name, email and user_type
\* are extracted
RegistrationFallback(n, e, u) ==
    LET domain == EmailDomain(e)
        nameAck == IF Truthy(n) THEN GroqNameAck(n) ELSE <<>>
        emailAck == IF ~Truthy(e) THEN <<>>
                    ELSE IF Contains(domain, DotEdu) THEN GroqEduAck(domain)
                    ELSE GroqThanksAck
        roleAck == IF ~Truthy(u) THEN <<>>
                   ELSE IF u = Parent THEN ParentAck
                   ELSE IF u = Mentor THEN MentorAck
                   ELSE <<>>
    IN  [response |-> IF nameAck \o emailAck \o roleAck = <<>>
                      THEN GroqRegistrationFiller
                      ELSE nameAck \o emailAck \o roleAck,
         field_updates |-> FieldUpdates(n, e, u),
         suggestions |-> <<>>,
         context |-> "registration"]

handle_registration_fallback(query, user_data) ==
    RegistrationFallback(extract_name(query), extract_email(query),
                         extract_user_type(query))

emergency_fallback(query, page_context) ==
    [response |-> <<"I'm here to help! Could you tell me more about what you're looking for?">>,
     suggestions |-> <<"Find programs for my child", "I want to become a mentor">>,
     context |-> page_context,
     field_updates |-> {}]

\* the emergency answer given where the template should be
generate_fallback_response_Emergency(query, page_context, user_data) ==
    emergency_fallback(query, page_context)

generate_fallback_response(query, page_context, user_data) ==
    IF page_context = "landing" THEN handle_landing_fallback(query)
    ELSE IF page_context = "registration"
    THEN handle_registration_fallback(query, user_data)
    ELSE emergency_fallback(query, page_context)

\* the answer of the collaborator returned with no field extracted
generate_groq_response_NoFields(query, page_context, ai_response) ==
    [response |-> ai_response,
     context |-> page_context,
     suggestions |-> generate_suggestions(query, page_context, ai_response),
     field_updates |-> {}]

\* the fields extracted on every page, not only on the registration page
generate_groq_response_AlwaysExtract(query, page_context, ai_response) ==
    [response |-> ai_response,
     context |-> page_context,
     suggestions |-> generate_suggestions(query, page_context, ai_response),
     field_updates |-> extract_fields_from_query(query)]

\* generate_groq_response after a call that returned: the collaborator's text
\* is the response whatever it is
generate_groq_response(query, page_context, ai_response) ==
    [response |-> ai_response,
     context |-> page_context,
     suggestions |-> generate_suggestions(query, page_context, ai_response),
     field_updates |-> IF page_context = "registration"
                       THEN extract_fields_from_query(query) ELSE {}]

\* response_data.get(key, default)
DictGet(d, key, default) == IF key \in DOMAIN d THEN d[key] ELSE default

\* main-groq.py: the endpoint builds its response model from the service's
\* dict; AIResponse.response is a required str, so a None fails validation and
\* the handler's except turns that into HTTP 500
main_groq_endpoint(endpoint, response_data) ==
    IF response_data.response = None
    THEN [status |-> "error", code |-> 500]
    ELSE IF endpoint = "landing"
    THEN [status |-> "ok",
          body |-> [response |-> response_data.response,
                    context |-> response_data.context,
                    suggestions |-> DictGet(response_data, "suggestions", <<>>)]]
    ELSE [status |-> "ok",
          body |-> [response |-> response_data.response,
                    context |-> response_data.context,
                    suggestions |-> DictGet(response_data, "suggestions", <<>>),
                    field_updates |-> DictGet(response_data, "field_updates", {})]]

(***************************************************************************)
(* The flat endpoints of app.py.                                           *)
(***************************************************************************)
AppSuggestions ==
    <<"I'm a parent looking for programs",
      "I want to become a mentor",
      "Tell me about your platform",
      "Take me to registration">>

\* text of a field_updates dict formatted into the prompt
FieldUpdatesText(fu) ==
    LET Item(k) == IF \E pr \in fu : pr[1] = k
                   THEN <<k, ": ">> \o (CHOOSE pr \in fu : pr[1] = k)[2] \o <<", ">>
                   ELSE <<>>
    IN  Item("name") \o Item("email") \o Item("userType")

\* the messages get_groq_response sends
app_messages(query, context) ==
    <<[role |-> "system",
       content |-> <<"You are an AI assistant for MentorIQ [...] Context: ">> \o context],
      [role |-> "user", content |-> query]>>

AppParentTemplate ==
    <<"Perfect! I'd love to help you find the ideal FLL program for your child. MentorIQ connects families with amazing mentors and teams in your area.">>
AppMentorTemplate ==
    <<"Wonderful! We're always excited to connect with passionate educators. MentorIQ saves mentors 60%+ of administrative time through AI-powered tools.">>
AppWelcomeTemplate ==
    <<"Welcome to MentorIQ! I'm here to help you discover amazing FLL programs and mentors.">>

app_landing_chat(query, ai_response) ==
    LET q == Lower(query)
        response ==
            IF Truthy(ai_response) THEN ai_response
            ELSE IF ContainsAny(q, {Parent, Child}) THEN AppParentTemplate
            ELSE IF ContainsAny(q, {Mentor, Teach}) THEN AppMentorTemplate
            ELSE AppWelcomeTemplate
    IN  [status |-> "ok",
         body |-> [response |-> response,
                   context |-> "landing",
                   suggestions |-> AppSuggestions]]

\* " ".join(parts)
RECURSIVE JoinWithSpace(_)
JoinWithSpace(parts) ==
    IF parts = <<>> THEN <<>>
    ELSE IF Len(parts) = 1 THEN parts[1]
    ELSE parts[1] \o <<" ">> \o JoinWithSpace(Tail(parts))

AppNameAck(n) == <<"Hi ">> \o n \o <<"! Great to meet you.">>
AppThanksAck == <<"Thanks for providing your email address!">>
AppRegistrationFiller == <<"I'm here to help you complete your registration!">>

\* the body of registration_chat once name, email and user_type are extracted
AppRegistration(n, e, u, ai_response) ==
    LET response_parts ==
            (IF Truthy(n) THEN <<AppNameAck(n)>> ELSE <<>>)
            \o (IF Truthy(e) THEN <<AppThanksAck>> ELSE <<>>)
            \o (IF u = Parent THEN <<ParentAck>>
                ELSE IF u = Mentor THEN <<MentorAck>>
                ELSE <<>>)
    IN  [status |-> "ok",
         body |-> [response |-> IF Truthy(ai_response) THEN ai_response
                                ELSE IF response_parts # <<>>
                                THEN JoinWithSpace(response_parts)
                                ELSE AppRegistrationFiller,
                   context |-> "registration",
                   suggestions |-> None,
                   field_updates |-> FieldUpdates(n, e, u)]]

app_registration_chat(query, ai_response) ==
    AppRegistration(extract_name(query), extract_email(query),
                    extract_user_type(query), ai_response)

(***************************************************************************)
(* The pattern-matching services with no collaborator:                     *)
(* MentorIQOllamaService (src/services/ollama_service.py, served by        *)
(* src/api/ai_endpoints.py) and SimplifiedAI (main-minimal.py).            *)
(***************************************************************************)
Fll == <<"f","l","l">>
Gmail == <<"g","m","a","i","l">>
Yahoo == <<"y","a","h","o","o">>
Hotmail == <<"h","o","t","m","a","i","l">>
Outlook == <<"o","u","t","l","o","o","k">>

OllamaParentTemplate ==
    <<"Perfect! I'd love to help you find the ideal FLL program for your child. MentorIQ connects families with amazing mentors and teams in your area.\n\nOur AI-powered platform makes it easy to discover programs that match your child's interests, your schedule, and your location. We focus on finding mentors who not only teach robotics skills but also inspire creativity and teamwork.\n\nTo get started with personalized recommendations, I'd suggest completing our quick registration. This helps us understand your specific needs and preferences.\n\nWould you like me to guide you to registration, or do you have questions about specific programs?">>
OllamaMentorTemplate ==
    <<"Wonderful! We're always excited to connect with passionate educators and professionals who want to make a difference in students' lives.\n\nMentorIQ is designed to save mentors like you 60%+ of administrative time through AI-powered tools, so you can focus on what matters most - inspiring and guiding your students.\n\nOur platform helps you:\n- Streamline team management and progress tracking\n- Automate parent communications and scheduling\n- Access resources and best practices from successful mentors\n- Connect with families actively seeking quality mentoring\n\nWhether you're looking to start your first FLL team or enhance an existing program, we provide the tools and community support you need.\n\nReady to get started with your mentor profile?">>
OllamaProgramTemplate ==
    <<"Great question about FLL programs! MentorIQ connects you with high-quality FIRST LEGO League teams and mentors in your area.\n\nOur platform features: [...]\n\nWhat specific aspects of FLL programs are you most curious about?">>
OllamaWelcomeTemplate ==
    <<"Welcome to MentorIQ! I'm here to help you discover amazing FLL programs and mentors.\n\nWhether you're a parent looking for the perfect robotics program for your child, or a mentor ready to inspire the next generation of innovators, our AI-powered platform makes connections simple and effective.\n\nWhat brings you to MentorIQ today?">>
ProgramSuggestions ==
    <<"Show me programs in my area",
      "What do programs typically cost?",
      "How do I choose the right mentor?",
      "Register for personalized matches">>

\* MentorIQOllamaService._handle_landing_query: the parent answer is returned
\* only inside the nested test for 'find', 'program' or 'team'
ollama_handle_landing_query(query) ==
    LET query_lower == Lower(query)
    IN  IF /\ ContainsAny(query_lower, {Child, Kid, Son, Daughter, Parent})
           /\ ContainsAny(query_lower, {Find, Program, Team})
        THEN [response |-> OllamaParentTemplate,
              suggestions |-> ParentSuggestions,
              context |-> "landing"]
        ELSE IF ContainsAny(query_lower, {Mentor, Teach, Coach, Lead, Engineer})
        THEN [response |-> OllamaMentorTemplate,
              suggestions |-> MentorSuggestions,
              context |-> "landing"]
        ELSE IF ContainsAny(query_lower, {Program, Team, Robotics, Fll})
        THEN [response |-> OllamaProgramTemplate,
              suggestions |-> ProgramSuggestions,
              context |-> "landing"]
        ELSE [response |-> OllamaWelcomeTemplate,
              suggestions |-> WelcomeSuggestions,
              context |-> "landing"]

\* user_data.get(key), with the test `user_data and ...` in front
UserDataHas(user_data, key) ==
    UserDataTruthy(user_data) /\ Truthy(user_data[key])

\* sum(1 for v in user_data.values() if v)
CompletedFields(user_data) ==
    Cardinality({k \in {"name", "email", "userType"} : Truthy(user_data[k])})

AskName == <<"I'd love to know what I should call you! What's your name?">>
AskEmail(user_data) ==
    <<"Thanks ">> \o user_data.name
    \o <<"! I'll need your email address to create your account. What email should I use?">>
AskRole ==
    <<"Perfect! Just one more thing - are you here as a parent looking for programs for your child, or as a mentor wanting to help with FLL teams?">>
OllamaRegistrationFiller ==
    <<"I'm here to help you complete your registration! You can either fill out the form on the left, or just tell me your information and I'll take care of it. What would you prefer?">>
AlmostDone ==
    <<"\n\nYou're almost done! Once registration is complete, you'll have access to personalized program recommendations and our full platform features.">>

\* the contextual guidance given when nothing was extracted
ContextualGuidance(user_data) ==
    IF UserDataTruthy(user_data) /\ ~Truthy(user_data.name) THEN AskName
    ELSE IF UserDataHas(user_data, "name") /\ ~Truthy(user_data.email)
    THEN AskEmail(user_data)
    ELSE IF /\ UserDataHas(user_data, "name") /\ UserDataHas(user_data, "email")
            /\ ~Truthy(user_data.userType)
    THEN AskRole
    ELSE OllamaRegistrationFiller

EduAck(domain) ==
    <<"I see you're from an educational institution (">> \o domain
    \o <<") - that's wonderful! Many of our best mentors come from educational backgrounds. ">>
ThanksAck == <<"Thanks for providing your email address! ">>
OtherDomainAck(domain) == <<"Great to have you joining from ">> \o domain \o <<"! ">>
NameAck(n) == <<"Hi ">> \o n \o <<"! Great to meet you. ">>

OllamaParentAck ==
    <<"Wonderful! We're excited to help you find the perfect FLL program for your child. Our platform connects families with amazing mentors and teams in your area, making it easy to discover opportunities that match your child's interests and your family's schedule.">>
OllamaMentorAck ==
    <<"Fantastic! We need more passionate mentors like you. Whether you're looking to start a new team or join an existing program, our platform provides the tools and community support to help you make a real impact on students' lives while saving you significant administrative time.">>

\* the body of MentorIQOllamaService._handle_registration_query once name,
\* email and user_type are extracted
OllamaRegistration(n, e, u, user_data) ==
    LET domain == EmailDomain(e)
        nameAck == IF Truthy(n) THEN NameAck(n) ELSE <<>>
        emailAck == IF ~Truthy(e) THEN <<>>
                    ELSE IF Contains(domain, DotEdu) THEN EduAck(domain)
                    ELSE IF ContainsAny(domain, {Gmail, Yahoo, Hotmail, Outlook})
                    THEN ThanksAck
                    ELSE OtherDomainAck(domain)
        roleAck == IF u = Parent THEN OllamaParentAck
                   ELSE IF u = Mentor THEN OllamaMentorAck
                   ELSE <<>>
        suffix == IF UserDataTruthy(user_data) /\ CompletedFields(user_data) >= 2
                  THEN AlmostDone ELSE <<>>
    IN  [response |-> (IF ~Truthy(n) /\ ~Truthy(e) /\ ~Truthy(u)
                       THEN ContextualGuidance(user_data)
                       ELSE nameAck \o emailAck \o roleAck) \o suffix,
         field_updates |-> FieldUpdates(n, e, u),
         suggestions |-> <<>>,
         context |-> "registration"]

ollama_handle_registration_query(query, user_data) ==
    OllamaRegistration(extract_name(query), extract_email(query),
                       extract_user_type(query), user_data)

\* MentorIQOllamaService._fallback_response, the answer kept for an exception
\* in get_contextual_response
ollama_fallback_response(query, page_context) ==
    IF page_context = "landing"
    THEN [response |-> <<"I'm here to help you discover FLL programs! Could you tell me more about what you're looking for?">>,
          suggestions |-> <<"Find programs for my child", "I want to become a mentor">>,
          context |-> "landing"]
    ELSE [response |-> <<"I'm here to help with your registration. What information can I help you with?">>,
          field_updates |-> {},
          context |-> "registration"]

\* MentorIQOllamaService.get_contextual_response: nothing in its try block
\* raises, so the pattern-matched answer is the answer
ollama_get_contextual_response(query, page_context, user_data) ==
    IF page_context = "landing" THEN ollama_handle_landing_query(query)
    ELSE IF page_context = "registration"
    THEN ollama_handle_registration_query(query, user_data)
    ELSE [response |-> <<>>, suggestions |-> <<>>, field_updates |-> {},
          context |-> page_context]

\* ai_endpoints.py: the response model built from the service's dict
ai_endpoints_endpoint(endpoint, response_data) ==
    IF endpoint = "landing"
    THEN [status |-> "ok",
          body |-> [response |-> response_data.response,
                    context |-> response_data.context,
                    suggestions |-> DictGet(response_data, "suggestions", <<>>)]]
    ELSE [status |-> "ok",
          body |-> [response |-> response_data.response,
                    context |-> response_data.context,
                    suggestions |-> DictGet(response_data, "suggestions", <<>>),
                    field_updates |-> DictGet(response_data, "field_updates", {})]]

\* SimplifiedAI._handle_landing_query
minimal_handle_landing_query(query) ==
    LET query_lower == Lower(query)
    IN  IF ContainsAny(query_lower, {Child, Kid, Son, Daughter, Parent})
        THEN [response |-> OllamaParentTemplate,
              suggestions |-> ParentSuggestions,
              context |-> "landing"]
        ELSE IF ContainsAny(query_lower, {Mentor, Teach, Coach, Lead, Engineer})
        THEN [response |-> OllamaMentorTemplate,
              suggestions |-> MentorSuggestions,
              context |-> "landing"]
        ELSE [response |-> OllamaWelcomeTemplate,
              suggestions |-> WelcomeSuggestions,
              context |-> "landing"]

MinimalParentAck ==
    <<"Wonderful! We're excited to help you find the perfect FLL program for your child. Our platform connects families with amazing mentors and teams in your area.">>
MinimalMentorAck ==
    <<"Fantastic! We need more passionate mentors like you. Whether you're looking to start a new team or join an existing program, our platform provides the tools and support you need.">>

\* the body of SimplifiedAI._handle_registration_query once name, email and
\* user_type are extracted
MinimalRegistration(n, e, u, user_data) ==
    LET domain == EmailDomain(e)
        nameAck == IF Truthy(n) THEN NameAck(n) ELSE <<>>
        emailAck == IF ~Truthy(e) THEN <<>>
                    ELSE IF Contains(domain, DotEdu) THEN EduAck(domain)
                    ELSE ThanksAck
        roleAck == IF u = Parent THEN MinimalParentAck
                   ELSE IF u = Mentor THEN MinimalMentorAck
                   ELSE <<>>
    IN  [response |-> IF ~Truthy(n) /\ ~Truthy(e) /\ ~Truthy(u)
                      THEN ContextualGuidance(user_data)
                      ELSE nameAck \o emailAck \o roleAck,
         field_updates |-> FieldUpdates(n, e, u),
         suggestions |-> <<>>,
         context |-> "registration"]

minimal_handle_registration_query(query, user_data) ==
    MinimalRegistration(extract_name(query), extract_email(query),
                        extract_user_type(query), user_data)

\* SimplifiedAI.get_contextual_response
minimal_get_contextual_response(query, page_context, user_data) ==
    IF page_context = "landing" THEN minimal_handle_landing_query(query)
    ELSE IF page_context = "registration"
    THEN minimal_handle_registration_query(query, user_data)
    ELSE [response |-> <<>>, suggestions |-> <<>>, field_updates |-> {},
          context |-> page_context]

\* main-minimal.py: the response model built from the service's dict
main_minimal_endpoint(endpoint, response_data) ==
    IF endpoint = "landing"
    THEN [status |-> "ok",
          body |-> [response |-> response_data.response,
                    context |-> response_data.context,
                    suggestions |-> DictGet(response_data, "suggestions", <<>>)]]
    ELSE [status |-> "ok",
          body |-> [response |-> response_data.response,
                    context |-> response_data.context,
                    suggestions |-> DictGet(response_data, "suggestions", <<>>),
                    field_updates |-> DictGet(response_data, "field_updates", {})]]

(***************************************************************************)
(* Utterances.  A text is the concatenation of a few tokens of one          *)
(* vocabulary; the utterances quoted in the specification are added as     *)
(* they stand.                                                             *)
(***************************************************************************)
MaxNameSegs == 3
MaxTypeSegs == 3
MaxEmailSegs == 4

\* MaxNameLen - 1 letters: one more letter reaches the length limit
LongWord == [i \in 1..(MaxNameLen - 1) |-> "z"]

NameVocab ==
      { <<"c","a","l","l"," ","m","e">>,
        <<"I","'","m">>,
        <<" ">>,
        <<"\n">>,
        <<"\t">>,
        <<"A","l","e","x">>,
        <<"h","e","l","l","o">>,
        <<"!">>,
        LongWord,
        <<"z">> }

TypeVocab ==
      { <<"p","a","r","e","n","t">>,
        <<"e","n","g","i","n","e","e","r">>,
        <<"T","e","a","c","h">>,
        <<"p","e","r">>,
        <<"s","o","n">>,
        <<" ">>,
        <<"K","I","D">>,
        <<"x">> }

EmailVocab ==
      { <<"a","@","b">>,
        <<".","c","o">>,
        <<"|">>,
        <<"1">>,
        <<" ">>,
        <<".">>,
        <<"X">>,
        <<"_">> }

ExMyNameIsAlexRivera ==
    <<"M","y"," ","n","a","m","e"," ","i","s"," ","A","l","e","x"," ","R","i","v","e","r","a">>
ExALEX ==
    <<"A","L","E","X">>
ExHelloThere ==
    <<"h","e","l","l","o"," ","t","h","e","r","e">>
ExParentEngineer ==
    <<"I","'","m"," ","a"," ","p","a","r","e","n","t"," ","a","n","d"," ","a","n"," ","e","n","g","i","n","e","e","r">>
ExSamMentor ==
    <<"I","'","m"," ","S","a","m",","," ","s","a","m","@","s","c","h","o","o","l",".","e","d","u",","," ","a","n","d"," ","I","'","m"," ","a"," ","m","e","n","t","o","r">>
ExTellMeAboutFLL ==
    <<"t","e","l","l"," ","m","e"," ","a","b","o","u","t"," ","F","L","L">>

SpecExamples == { ExMyNameIsAlexRivera, ExALEX, ExHelloThere,
                  ExParentEngineer, ExSamMentor, ExTellMeAboutFLL }

\* utterances that give an email of each kind of domain, and one that gives
\* no field at all
ExSchoolEdu == <<"s","a","m","@","s","c","h","o","o","l",".","e","d","u">>
ExSchoolEduUpper == <<"s","a","m","@","S","C","H","O","O","L",".","E","D","U">>
ExGmail == <<"s","a","m","@","g","m","a","i","l",".","c","o","m">>
ExGmailUpper == <<"s","a","m","@","G","M","A","I","L",".","C","O","M">>
ExGmailEdu == <<"s","a","m","@","g","m","a","i","l",".","e","d","u">>
ExOtherDomain == <<"s","a","m","@","a","c","m","e",".","o","r","g">>
ExOtherDomainUpper == <<"s","a","m","@","A","C","M","E",".","O","R","G">>
ExQuestionMark == <<"?">>
ExFindParent ==
    <<"f","i","n","d"," ","a"," ","t","e","a","m"," ","f","o","r"," ","m","y"," ","c","h","i","l","d">>

DomainExamples == { ExSchoolEdu, ExSchoolEduUpper, ExGmail, ExGmailUpper,
                    ExGmailEdu, ExOtherDomain, ExOtherDomainUpper,
                    ExQuestionMark, ExFindParent }

RECURSIVE Concats(_, _)
Concats(V, n) ==
    IF n = 0 THEN {<<>>}
    ELSE LET prev == Concats(V, n - 1)
         IN  prev \cup {s \o t : s \in prev, t \in V}

Texts == Concats(NameVocab, MaxNameSegs) \cup Concats(TypeVocab, MaxTypeSegs)
            \cup Concats(EmailVocab, MaxEmailSegs) \cup SpecExamples

MaxQuerySegs == 1
MaxHistory == 4

QueryVocab ==
      { <<"I","'","m"," ">>,
        <<"S","a","m">>,
        <<" ","p","a","r","e","n","t">>,
        <<" ","T","e","a","c","h">>,
        <<"k","i","d">>,
        <<" ","s","@","x",".","e","d","u">> }

Queries == Concats(QueryVocab, MaxQuerySegs) \cup SpecExamples
              \cup DomainExamples

Sam == <<"S","a","m">>
SamEmail == <<"s","a","m","@","s","c","h","o","o","l",".","e","d","u">>

\* user_context / registration_data of the request body: absent, an empty
\* object, or an object with some of name, email, userType (None: key absent;
\* <<>>: the empty string of a form field not yet filled)
UserDatas ==
    { [given |-> FALSE, name |-> None, email |-> None, userType |-> None],
      [given |-> TRUE, name |-> None, email |-> None, userType |-> None],
      [given |-> TRUE, name |-> <<>>, email |-> <<>>, userType |-> <<>>],
      [given |-> TRUE, name |-> Sam, email |-> <<>>, userType |-> <<>>],
      [given |-> TRUE, name |-> Sam, email |-> SamEmail, userType |-> None],
      [given |-> TRUE, name |-> Sam, email |-> SamEmail, userType |-> Mentor] }

TurnNumbers == <<"1","2","3","4","5","6","7","8","9">>

\* a conversation of n earlier turns, user and assistant alternating
Conversation(n) ==
    [k \in 1..n |-> [sender |-> IF k % 2 = 1 THEN "user" ELSE "ai",
                     content |-> <<"turn ", TurnNumbers[k]>>]]

Histories == {Conversation(n) : n \in 0..MaxHistory}


(***************************************************************************)
(* State.                                                                  *)
(***************************************************************************)
VARIABLES
    text,         \* the utterance handed to the extractors
    name,         \* extract_name(text)
    email,        \* extract_email(text)
    user_type,    \* extract_user_type(text)
    email_again,  \* extract_email(email): the returned email fed back alone
    epc,          \* which extractor runs next
    variant,      \* the deployed application: "groq" (main-groq.py), "app"
                  \* (app.py), "ollama" (ai_endpoints.py), "minimal"
                  \* (main-minimal.py), "main" (main.py)
    client,       \* whether the collaborator client was constructed
    pc,           \* position of the request in flight
    req,          \* the request in flight
    messages,     \* the message sequence handed to the collaborator
    collab,       \* what became of the collaborator call of this request
    attempts,     \* how many collaborator calls this request has made
    response_data,\* the dict the service object handed to the endpoint
    result,       \* what the endpoint returned to its caller
    user_state,   \* the caller's user_data dict as the handler leaves it
    calls,        \* the requests in flight at once, one frame of locals each
    earlier       \* an earlier request and the response its caller kept

vars == <<text, name, email, user_type, email_again, epc,
          variant, client, pc, req, messages, collab, attempts,
          response_data, result, user_state, calls, earlier>>

extractVars == <<text, name, email, user_type, email_again, epc>>
composeVars == <<variant, client, pc, req, messages, collab, attempts,
                 response_data, result, user_state, calls, earlier>>

\* an output that has not been computed yet
Unset == <<"<unset>">>

NoRequest == [endpoint |-> "none"]
NoResult == [status |-> "none"]
\* no dict yet, and none at all in app.py, whose endpoints have no service
NoResponseData == [context |-> "none"]
\* no response kept
NoEarlier == [req |-> NoRequest]

(***************************************************************************)
(* The extractors applied to one utterance, in the order every caller      *)
(* applies them, and then extract_email applied to the email it returned.  *)
(***************************************************************************)
ExtractName ==
    /\ epc = "name"
    /\ name' = extract_name(text)
    /\ epc' = "email"
    /\ UNCHANGED <<text, email, user_type, email_again, composeVars>>

ExtractEmail ==
    /\ epc = "email"
    /\ email' = extract_email(text)
    /\ epc' = "type"
    /\ UNCHANGED <<text, name, user_type, email_again, composeVars>>

ExtractUserType ==
    /\ epc = "type"
    /\ user_type' = extract_user_type(text)
    /\ epc' = "done"
    /\ UNCHANGED <<text, name, email, email_again, composeVars>>

ReExtractEmail ==
    /\ epc = "done"
    /\ email # None
    /\ email_again' = extract_email(email)
    /\ epc' = "fed"
    /\ UNCHANGED <<text, name, email, user_type, composeVars>>

ComposeIdle ==
    /\ pc = "idle"
    /\ req = NoRequest
    /\ messages = <<>>
    /\ collab = "none"
    /\ attempts = 0
    /\ response_data = NoResponseData
    /\ result = NoResult
    /\ user_state = Unset
    /\ calls = <<>>
    /\ earlier = NoEarlier

InitExtract ==
    /\ text \in Texts
    /\ name = Unset /\ email = Unset /\ user_type = Unset /\ email_again = Unset
    /\ epc = "name"
    /\ variant = "groq" /\ client = FALSE
    /\ ComposeIdle

NextExtract == ExtractName \/ ExtractEmail \/ ExtractUserType \/ ReExtractEmail

SpecExtract == InitExtract /\ [][NextExtract]_vars

Extracted == epc \in {"done", "fed"}


(***************************************************************************)
(* One request at a time through an endpoint.  The handler stops at the    *)
(* call to the collaborator when the client exists; what the call does is  *)
(* the collaborator's choice.                                              *)
(***************************************************************************)
\* completion.choices[0].message.content of a call that returned: a text, an
\* empty text, or no text at all
CollaboratorContents == {<<"<collaborator text>">>, <<>>, None}

ContentKind(content) ==
    IF content = None THEN "missing"
    ELSE IF content = <<>> THEN "empty"
    ELSE "text"

\* the context string app.py puts into its prompt
AppContext(r) ==
    IF r.endpoint = "landing" THEN <<"landing page program discovery">>
    ELSE <<"registration assistance with extracted fields: ">>
         \o FieldUpdatesText(extract_fields_from_query(r.query))

\* the template given until a response has been kept, a short answer after
ServiceAnswer_FirstTimeOnly(r, outcome, content) ==
    IF variant = "groq"
    THEN IF outcome = "returned"
         THEN generate_groq_response(r.query, r.endpoint, content)
         ELSE IF earlier = NoEarlier
         THEN generate_fallback_response(r.query, r.endpoint, r.user_data)
         ELSE emergency_fallback(r.query, r.endpoint)
    ELSE IF variant = "ollama"
    THEN ollama_get_contextual_response(r.query, r.endpoint, r.user_data)
    ELSE IF variant = "minimal"
    THEN minimal_get_contextual_response(r.query, r.endpoint, r.user_data)
    ELSE NoResponseData

\* the dict get_contextual_response returns for request r once the
\* collaborator call is settled: outcome "unavailable" (no client), "returned"
\* (with content) or "raised"
ServiceAnswer(r, outcome, content) ==
    IF variant = "groq"
    THEN IF outcome = "returned"
         THEN generate_groq_response(r.query, r.endpoint, content)
         ELSE generate_fallback_response(r.query, r.endpoint, r.user_data)
    ELSE IF variant = "ollama"
    THEN ollama_get_contextual_response(r.query, r.endpoint, r.user_data)
    ELSE IF variant = "minimal"
    THEN minimal_get_contextual_response(r.query, r.endpoint, r.user_data)
    ELSE NoResponseData

\* what the endpoint returns for request r, from the service's dict sd
EndpointAnswer(r, sd, outcome, content) ==
    IF variant = "groq" THEN main_groq_endpoint(r.endpoint, sd)
    ELSE IF variant = "ollama" THEN ai_endpoints_endpoint(r.endpoint, sd)
    ELSE IF variant = "minimal" THEN main_minimal_endpoint(r.endpoint, sd)
    ELSE LET ai_response == IF outcome = "returned" THEN content ELSE None
         IN  IF r.endpoint = "landing"
             THEN app_landing_chat(r.query, ai_response)
             ELSE app_registration_chat(r.query, ai_response)

\* what the endpoint returns for request r once the collaborator call is
\* settled: the endpoint's answer from the service's answer
Respond(r, outcome, content) ==
    EndpointAnswer(r, ServiceAnswer(r, outcome, content), outcome, content)

\* the client given up after a call that raised
ClientAfter_DroppedOnRaise(c, outcome) == c /\ outcome # "raised"

\* the service's client once a collaborator call has ended with outcome: the
\* except branches log and fall back, and assign nothing to self.client (or
\* to groq_client and GROQ_AVAILABLE in app.py)
ClientAfter(c, outcome) == c

\* the field_updates of the answer written into the caller's dict
UserStateAfter_Merged(r, sd) ==
    LET fu == DictGet(sd, "field_updates", {})
        Merged(k) == IF \E pr \in fu : pr[1] = k
                     THEN (CHOOSE pr \in fu : pr[1] = k)[2]
                     ELSE r.user_data[k]
    IN  [given |-> r.user_data.given \/ fu # {},
         name |-> Merged("name"),
         email |-> Merged("email"),
         userType |-> Merged("userType")]

\* the caller's user_data dict once the handler has answered with sd: the
\* handlers read it (json.dumps, .get, .values) and assign nothing into it
UserStateAfter(r, sd) == r.user_data

\* the handler up to the collaborator call, or to its end when there is no
\* client
Accept(r) ==
    /\ req' = r
    /\ IF client
       THEN /\ pc' = "calling"
            /\ collab' = "pending"
            /\ attempts' = 1
            /\ messages' = IF variant = "groq"
                           THEN groq_messages(r.query, r.endpoint, r.user_data,
                                              r.conversation_history)
                           ELSE app_messages(r.query, AppContext(r))
            /\ response_data' = NoResponseData
            /\ result' = NoResult
            /\ user_state' = r.user_data
       ELSE /\ pc' = "done"
            /\ collab' = "unavailable"
            /\ attempts' = 0
            /\ messages' = <<>>
            /\ response_data' = ServiceAnswer(r, "unavailable", None)
            /\ result' = EndpointAnswer(r, response_data', "unavailable", None)
            /\ user_state' = UserStateAfter(r, response_data')

\* POST /api/ai/chat/landing
landing_chat(query, user_context, conversation_history) ==
    /\ pc = "idle"
    /\ Accept([endpoint |-> "landing", query |-> query,
               user_data |-> user_context,
               conversation_history |-> conversation_history])
    /\ UNCHANGED <<variant, client, extractVars, calls, earlier>>

\* POST /api/ai/chat/registration
registration_chat(query, registration_data, conversation_history) ==
    /\ pc = "idle"
    /\ Accept([endpoint |-> "registration", query |-> query,
               user_data |-> registration_data,
               conversation_history |-> conversation_history])
    /\ UNCHANGED <<variant, client, extractVars, calls, earlier>>

CollaboratorReturns(content) ==
    /\ pc = "calling"
    /\ collab' = ContentKind(content)
    /\ response_data' = ServiceAnswer(req, "returned", content)
    /\ result' = EndpointAnswer(req, response_data', "returned", content)
    /\ user_state' = UserStateAfter(req, response_data')
    /\ pc' = "done"
    /\ client' = ClientAfter(client, "returned")
    /\ UNCHANGED <<variant, req, messages, attempts, extractVars, calls, earlier>>

CollaboratorRaises ==
    /\ pc = "calling"
    /\ collab' = "raised"
    /\ response_data' = ServiceAnswer(req, "raised", None)
    /\ result' = EndpointAnswer(req, response_data', "raised", None)
    /\ user_state' = UserStateAfter(req, response_data')
    /\ pc' = "done"
    /\ client' = ClientAfter(client, "raised")
    /\ UNCHANGED <<variant, req, messages, attempts, extractVars, calls, earlier>>

\* the response is on its way; the next request may come
NextRequest ==
    /\ pc = "done"
    /\ pc' = "idle"
    /\ req' = NoRequest
    /\ messages' = <<>>
    /\ collab' = "none"
    /\ attempts' = 0
    /\ response_data' = NoResponseData
    /\ result' = NoResult
    /\ user_state' = Unset
    /\ UNCHANGED <<variant, client, extractVars, calls, earlier>>

\* the services that have a collaborator, and those that only match patterns
CollaboratorVariants == {"groq", "app"}
PatternVariants == {"ollama", "minimal"}

Init ==
    /\ variant \in CollaboratorVariants \cup PatternVariants
    /\ client \in BOOLEAN
    /\ client => variant \in CollaboratorVariants
    /\ ComposeIdle
    /\ text = <<>>
    /\ name = Unset /\ email = Unset /\ user_type = Unset /\ email_again = Unset
    /\ epc = "off"

Next ==
    \/ \E q \in Queries, ud \in UserDatas, h \in Histories : landing_chat(q, ud, h)
    \/ \E q \in Queries, ud \in UserDatas, h \in Histories : registration_chat(q, ud, h)
    \/ \E content \in CollaboratorContents : CollaboratorReturns(content)
    \/ CollaboratorRaises
    \/ NextRequest

Spec == Init /\ [][Next]_vars

(***************************************************************************)
(* Properties of the extractors (checked under SpecExtract).               *)
(***************************************************************************)
HasParentKeyword(t) == \E k \in parent_keywords : Contains(Lower(t), k)
HasMentorKeyword(t) == \E k \in mentor_keywords : Contains(Lower(t), k)
HasTriggerPhrase(t) == \E p \in TriggerPhrases : Contains(Lower(t), p)

\* C1: whenever the lower-cased utterance contains a parent keyword,
\* extract_user_type returns 'parent', also when mentor keywords are present.
C1_ParentKeywordsWin ==
    (Extracted /\ HasParentKeyword(text)) => user_type = Parent

C1_Witness ==
    /\ Extracted
    /\ text = ExParentEngineer
    /\ HasParentKeyword(text) /\ HasMentorKeyword(text)
    /\ user_type = Parent

\* C2: extract_user_type returns 'mentor' exactly when no parent keyword and
\* some mentor keyword is a substring of the lower-cased utterance, and
\* nothing exactly when no keyword of either set is; containment ignores case
\* and word boundaries.
C2_MentorAndNothingExactly ==
    Extracted =>
        /\ (user_type = Mentor) <=> (~HasParentKeyword(text) /\ HasMentorKeyword(text))
        /\ (user_type = None) <=> (~HasParentKeyword(text) /\ ~HasMentorKeyword(text))

\* 'Teachx': the keyword in another case, inside a longer word
C2_Witness ==
    /\ Extracted
    /\ text = <<"T","e","a","c","h","x">>
    /\ user_type = Mentor

\* C3: an utterance with no trigger phrase that is not a line of capitalized
\* words (each an uppercase letter followed by lowercase letters) yields no
\* name; extract_name("hello there") returns nothing.
C3_NoTriggerNotCapitalizedGivesNothing ==
    (epc # "name" /\ ~HasTriggerPhrase(text) /\ ~CapitalizedWords(Strip(text)))
        => name = None

\* C4: extract_name("My name is Alex Rivera") is "Alex Rivera" and
\* extract_name("ALEX") is "ALEX"; with no trigger phrase in the utterance a
\* returned name is the whole line.
C4_TriggerThenWholeLine ==
    epc # "name" =>
        /\ text = ExMyNameIsAlexRivera
              => name = <<"A","l","e","x"," ","R","i","v","e","r","a">>
        /\ text = ExALEX => name = ExALEX
        /\ (~HasTriggerPhrase(text) /\ name # None)
              => name \in {text, SubSeq(text, 1, Len(text) - 1)}

C4_Witness ==
    /\ epc # "name"
    /\ text = ExALEX
    /\ name = ExALEX

\* C5: when both patterns match and the trigger-phrase candidate passes the
\* post-filter, the result is that candidate (the text after the trigger
\* phrase) and not the whole line.
C5_TriggerPatternFirst ==
    (/\ epc # "name"
     /\ TriggerGroup(text) # None
     /\ WholeLineGroup(text) # None
     /\ PostFilter(Strip(TriggerGroup(text))))
        => /\ name = Strip(TriggerGroup(text))
           /\ name # Strip(WholeLineGroup(text))

\* 'call me Alex': the whole line also matches the second pattern
C5_Witness ==
    /\ epc # "name"
    /\ text = <<"c","a","l","l"," ","m","e"," ","A","l","e","x">>
    /\ WholeLineGroup(text) = text
    /\ name = <<"A","l","e","x">>

MatchesEmailGrammar(e) ==
    \E a \in 2..Len(e) : \E d \in (a + 2)..(Len(e) - 2) :
        /\ e[a] = "@"
        /\ \A i \in 1..(a - 1) : IsLocalChar(e[i])
        /\ \A i \in (a + 1)..(d - 1) : IsDomainChar(e[i])
        /\ e[d] = "."
        /\ \A i \in (d + 1)..Len(e) : IsAlphaTldChar(e[i])

\* C7: extract_email returns nothing or a substring of the utterance, verbatim,
\* that matches the grammar local@domain.tld with a TLD of letters only.
C7_EmailMatchesGrammar ==
    (epc \notin {"name", "email"} /\ email # None) =>
        /\ Contains(text, email)
        /\ MatchesEmailGrammar(email)

\* C8: feeding a returned email back alone re-extracts the identical string.
C8_EmailRoundTrip ==
    epc = "fed" => email_again = email


(***************************************************************************)
(* Properties of the composer (checked under Spec).                        *)
(***************************************************************************)
\* C9: whatever the collaborator does (text, empty or missing text,
\* exception), the request ends with a well-formed response - a response
\* string and the request's context - and not with an error.
C9_ComposeNeverRaises ==
    pc = "done" =>
        /\ result.status = "ok"
        /\ result.body.response # None
        /\ result.body.context = req.endpoint

\* C10: a call that returns empty or missing text is answered exactly as if
\* the collaborator were unavailable, so no returned response string is empty.
C10_EmptyTextTakesTemplate ==
    pc = "done" =>
        /\ collab \in {"empty", "missing"}
              => result = Respond(req, "unavailable", None)
        /\ result.status = "ok" => Truthy(result.body.response)

\* the answer of a request whose collaborator is not used: the deterministic
\* template of the request's page context, written from the handlers of each
\* service
TemplateAnswer(r) ==
    IF variant = "groq"
    THEN main_groq_endpoint(r.endpoint,
            IF r.endpoint = "landing" THEN handle_landing_fallback(r.query)
            ELSE handle_registration_fallback(r.query, r.user_data))
    ELSE IF r.endpoint = "landing" THEN app_landing_chat(r.query, None)
    ELSE app_registration_chat(r.query, None)

\* C11: a request calls the collaborator at most once; when that call raises
\* the request makes no further call and returns the deterministic template
\* output of its page context.
C11_SingleAttemptThenTemplate ==
    /\ attempts <= 1
    /\ (pc = "done" /\ collab = "raised") =>
          /\ attempts = 1
          /\ result.status = "ok"
          /\ result.body.context = req.endpoint
          /\ result = TemplateAnswer(req)

C11_Witness ==
    /\ pc = "done" /\ collab = "raised" /\ attempts = 1
    /\ variant = "groq"
    /\ req.endpoint = "landing"
    /\ req.query = ExParentEngineer
    /\ result.body.response = GroqParentTemplate

\* the three landing templates of the deployed service
ParentTemplate ==
    IF variant = "groq" THEN GroqParentTemplate
    ELSE IF variant = "app" THEN AppParentTemplate ELSE OllamaParentTemplate
MentorTemplate ==
    IF variant = "groq" THEN GroqMentorTemplate
    ELSE IF variant = "app" THEN AppMentorTemplate ELSE OllamaMentorTemplate
WelcomeTemplate ==
    IF variant = "groq" THEN GroqWelcomeTemplate
    ELSE IF variant = "app" THEN AppWelcomeTemplate ELSE OllamaWelcomeTemplate

\* every word some landing handler takes for a parent or a mentor word
AnyParentWord == {Parent, Child, Kid, Son, Daughter}
AnyMentorWord == {Mentor, Teach, Coach, Lead, Engineer}

\* a landing request answered without a collaborator result
LandingWithoutCollaborator ==
    /\ pc = "done"
    /\ req.endpoint = "landing"
    /\ collab \in {"unavailable", "raised"}

\* C12: with no collaborator result the landing template follows a fixed
\* priority over the lower-cased utterance: 'parent' or 'child' gives the
\* parent template whatever other words are there; with no parent word,
\* 'mentor' or 'teach' gives the mentor template; with neither kind of word
\* the neutral welcome template is returned.
C12_LandingTemplatePriority ==
    LandingWithoutCollaborator =>
        LET q == Lower(req.query)
        IN  /\ ContainsAny(q, {Parent, Child})
                  => result.body.response = ParentTemplate
            /\ (~ContainsAny(q, AnyParentWord) /\ ContainsAny(q, {Mentor, Teach}))
                  => result.body.response = MentorTemplate
            /\ (~ContainsAny(q, AnyParentWord) /\ ~ContainsAny(q, AnyMentorWord))
                  => result.body.response = WelcomeTemplate

\* C13: with no collaborator configured every landing response is one of the
\* three fixed templates, and "tell me about FLL" gets the neutral welcome
\* template.
C13_OneOfThreeTemplates ==
    (pc = "done" /\ req.endpoint = "landing" /\ collab = "unavailable") =>
        /\ result.body.response \in {ParentTemplate, MentorTemplate, WelcomeTemplate}
        /\ req.query = ExTellMeAboutFLL => result.body.response = WelcomeTemplate

\* the fields the extractors find in an utterance, each under its key
ExtractedFields(query) ==
    {<<"name", v>> : v \in {extract_name(query)} \ {None}}
    \cup {<<"email", v>> : v \in {extract_email(query)} \ {None}}
    \cup {<<"userType", v>> : v \in {extract_user_type(query)} \ {None}}

\* C14: in registration context field_updates has the key 'name', 'email' or
\* 'userType' exactly when the matching extractor returned a value for this
\* turn's utterance, with that value, and no other key, with or without the
\* collaborator.
C14_FieldUpdatesAreTheExtraction ==
    (pc = "done" /\ req.endpoint = "registration" /\ result.status = "ok") =>
        /\ result.body.field_updates = ExtractedFields(req.query)
        /\ \A pr \in result.body.field_updates :
              pr[1] \in {"name", "email", "userType"}

C14_Witness ==
    /\ pc = "done" /\ req.endpoint = "registration"
    /\ collab = "text"
    /\ req.query = ExSamMentor
    /\ result.body.field_updates =
          {<<"name", Sam>>, <<"email", SamEmail>>, <<"userType", Mentor>>}

\* C15: in landing context field_updates is empty or absent, in the service's
\* dict and in the returned response, for every utterance and every outcome
\* of the collaborator call.
C15_LandingHasNoFieldUpdates ==
    (pc = "done" /\ req.endpoint = "landing") =>
        /\ DictGet(response_data, "field_updates", {}) = {}
        /\ result.status = "ok" => DictGet(result.body, "field_updates", {}) = {}

\* a landing utterance full of fields, answered by the collaborator
C15_Witness ==
    /\ pc = "done" /\ req.endpoint = "landing"
    /\ variant = "groq" /\ collab = "text"
    /\ req.query = ExSamMentor
    /\ ExtractedFields(req.query) # {}
    /\ response_data.field_updates = {}
    /\ "field_updates" \notin DOMAIN result.body

\* the literal pieces that open an acknowledgement, over all services
NameAckOpeners == {GroqNameAck(<<>>)[1]}
EduAckOpeners == {GroqEduAck(<<>>)[1], EduAck(<<>>)[1]}
EmailAckOpeners ==
    EduAckOpeners \cup {GroqThanksAck[1], AppThanksAck[1], OtherDomainAck(<<>>)[1]}
MentorAcks == {MentorAck[1], OllamaMentorAck[1], MinimalMentorAck[1]}
RoleAcks == MentorAcks \cup {ParentAck[1], OllamaParentAck[1], MinimalParentAck[1]}
\* the pieces that close an acknowledgement after a formatted value
AckClosers ==
    {GroqNameAck(<<>>)[2], AppNameAck(<<>>)[2], GroqEduAck(<<>>)[2],
     EduAck(<<>>)[2], OtherDomainAck(<<>>)[2]}

\* the positions of the response's pieces that belong to the set S
PiecesIn(response, S) == {k \in 1..Len(response) : response[k] \in S}

\* a registration request answered without the collaborator in which the
\* extractors found something
RegistrationExtractedWithoutCollaborator ==
    /\ pc = "done"
    /\ req.endpoint = "registration"
    /\ collab = "unavailable"
    /\ ExtractedFields(req.query) # {}

\* C16: with the collaborator absent and at least one field extracted, the
\* registration response is the acknowledgements that apply, and nothing
\* else, in the order name, email, role; for "I'm Sam, sam@school.edu, and
\* I'm a mentor" the three fields are returned and an educational-domain
\* acknowledgement is followed by the mentor encouragement.
C16_AcknowledgementsInOrder ==
    RegistrationExtractedWithoutCollaborator =>
        LET response == result.body.response
            names == PiecesIn(response, NameAckOpeners)
            emails == PiecesIn(response, EmailAckOpeners)
            roles == PiecesIn(response, RoleAcks)
        IN  /\ (names # {}) <=> (extract_name(req.query) # None)
            /\ (emails # {}) <=> (extract_email(req.query) # None)
            /\ (roles # {}) <=> (extract_user_type(req.query) # None)
            /\ \A i \in names, j \in emails \cup roles : i < j
            /\ \A i \in emails, j \in roles : i < j
            /\ \A k \in 1..Len(response) :
                  response[k] \in NameAckOpeners \cup EmailAckOpeners \cup RoleAcks
                                  \cup AckClosers \cup NameChars \cup DomainChars
            /\ req.query = ExSamMentor =>
                  /\ result.body.field_updates =
                        {<<"name", Sam>>, <<"email", SamEmail>>, <<"userType", Mentor>>}
                  /\ \E i \in PiecesIn(response, EduAckOpeners) :
                        \E j \in PiecesIn(response, MentorAcks) : i < j

\* the generic filler of each service
RegistrationFillers ==
    {GroqRegistrationFiller, OllamaRegistrationFiller, AppRegistrationFiller}

\* the response opens with the text t
StartsWith(response, t) ==
    Len(response) >= Len(t) /\ SubSeq(response, 1, Len(t)) = t

\* a registration request answered without a collaborator result in which
\* the extractors found nothing
RegistrationNothingExtracted ==
    /\ pc = "done"
    /\ req.endpoint = "registration"
    /\ collab \in {"unavailable", "raised"}
    /\ ExtractedFields(req.query) = {}

\* C17: when nothing is extracted the prompting question follows user_state:
\* present without a name, the ask-for-name question; with a name and no
\* email, the ask-for-email question addressed by name; with name and email
\* and no userType, the parent-or-mentor question; with all three, or with
\* no user_state at all, the generic filler.
C17_PromptFollowsUserState ==
    RegistrationNothingExtracted =>
        LET ud == req.user_data
            response == result.body.response
            filler == \E f \in RegistrationFillers : StartsWith(response, f)
        IN  /\ ~ud.given => filler
            /\ (ud.given /\ ~Truthy(ud.name)) => StartsWith(response, AskName)
            /\ (ud.given /\ Truthy(ud.name) /\ ~Truthy(ud.email))
                  => StartsWith(response, AskEmail(ud))
            /\ (ud.given /\ Truthy(ud.name) /\ Truthy(ud.email)
                          /\ ~Truthy(ud.userType))
                  => StartsWith(response, AskRole)
            /\ (ud.given /\ Truthy(ud.name) /\ Truthy(ud.email)
                          /\ Truthy(ud.userType))
                  => filler

ConsumerDomains == {Gmail, Yahoo, Hotmail, Outlook}
ThanksPieces == {GroqThanksAck[1], AppThanksAck[1]}
OtherDomainOpeners == {OtherDomainAck(<<>>)[1]}

\* the response has the piece at position k followed by the text t
FollowedBy(response, k, t) ==
    /\ k + Len(t) <= Len(response)
    /\ SubSeq(response, k + 1, k + Len(t)) = t

\* a registration request answered without a collaborator result in which
\* an email was extracted
RegistrationWithEmail ==
    /\ pc = "done"
    /\ req.endpoint = "registration"
    /\ collab \in {"unavailable", "raised"}
    /\ extract_email(req.query) # None

\* C18: the email acknowledgement comes from three buckets in strict
\* priority: a domain containing '.edu' gets the educational-institution
\* remark, also when it contains a consumer name; otherwise a domain with
\* gmail, yahoo, hotmail or outlook gets the generic thanks; every other
\* domain gets the neutral remark that names the domain.
C18_ThreeEmailBuckets ==
    RegistrationWithEmail =>
        LET domain == EmailDomain(extract_email(req.query))
            response == result.body.response
            edu == PiecesIn(response, EduAckOpeners)
            thanks == PiecesIn(response, ThanksPieces)
            other == PiecesIn(response, OtherDomainOpeners)
        IN  IF Contains(domain, DotEdu)
            THEN edu # {} /\ thanks = {} /\ other = {}
            ELSE IF ContainsAny(domain, ConsumerDomains)
            THEN edu = {} /\ thanks # {} /\ other = {}
            ELSE /\ edu = {} /\ thanks = {}
                 /\ \E k \in other : FollowedBy(response, k, domain)

\* the bucket an email acknowledgement was taken from
AckBucket(response) ==
    IF PiecesIn(response, EduAckOpeners) # {} THEN "edu"
    ELSE IF PiecesIn(response, ThanksPieces) # {} THEN "thanks"
    ELSE IF PiecesIn(response, OtherDomainOpeners) # {} THEN "other"
    ELSE "none"

\* the request r with its utterance in lower case
LowerCased(r) == [r EXCEPT !.query = Lower(r.query)]

\* C19: email domains are compared without regard to letter case: an email
\* gets the acknowledgement bucket that the same email with its domain in
\* lower case gets (sam@SCHOOL.EDU the bucket of sam@school.edu).
C19_DomainCaseInsensitive ==
    RegistrationWithEmail =>
        AckBucket(result.body.response)
            = AckBucket(Respond(LowerCased(req), "unavailable", None).body.response)

\* C20: every response returned for registration context has an empty
\* suggestions sequence, on every path: after the collaborator's answer,
\* after the template fallback, and in the fallback get_contextual_response
\* keeps for an internal failure of this request.
C20_RegistrationSuggestionsEmpty ==
    (pc = "done" /\ req.endpoint = "registration") =>
        /\ result.status = "ok" => result.body.suggestions = <<>>
        /\ variant = "groq"
              => emergency_fallback(req.query, req.endpoint).suggestions = <<>>

\* the number of suggestions a response dict or body carries; a null or
\* missing list carries none
SuggestionCount(d) ==
    IF "suggestions" \notin DOMAIN d THEN 0
    ELSE IF d.suggestions = None THEN 0
    ELSE Len(d.suggestions)

\* the answer the deployed service keeps for an internal failure of request r
InternalFailureAnswer(r) ==
    IF variant = "ollama" THEN ollama_fallback_response(r.query, r.endpoint)
    ELSE emergency_fallback(r.query, r.endpoint)

\* C21: every response for landing context carries 3 or 4 suggestions, on
\* every path: after the collaborator's answer, after the template fallback,
\* and in the fallback the service keeps for an internal failure of this
\* request; no response carries more than 4 suggestions.
C21_LandingSuggestionsThreeOrFour ==
    (pc = "done" /\ result.status = "ok") =>
        /\ SuggestionCount(result.body) <= 4
        /\ req.endpoint = "landing" =>
              /\ SuggestionCount(result.body) \in {3, 4}
              /\ variant \in {"groq", "ollama"}
                    => SuggestionCount(InternalFailureAnswer(req)) \in {3, 4}

\* the role a history entry is sent under
SentRole(entry) == IF entry.sender = "ai" THEN "assistant" ELSE "user"

\* C22: the message sequence sent to the collaborator is the system prompt,
\* then at most the 3 most recent entries of the caller's history in their
\* original order, then the current utterance as the last user turn; no
\* history entry older than the most recent 3 is sent.
C22_MessagesSystemHistoryUtterance ==
    messages # <<>> =>
        LET h == req.conversation_history
            n == Len(messages)
            k == n - 2
        IN  /\ n >= 2
            /\ messages[1].role = "system"
            /\ \A i \in 2..n : messages[i].role # "system"
            /\ messages[n] = [role |-> "user", content |-> req.query]
            /\ k <= 3 /\ k <= Len(h)
            /\ \A i \in 1..k :
                  messages[1 + i] = [role |-> SentRole(h[Len(h) - k + i]),
                                     content |-> h[Len(h) - k + i].content]
            /\ variant = "groq" => k = Min({3, Len(h)})

\* a history of four turns: the first is left out, the other three are sent
\* in order before the utterance
C22_Witness ==
    /\ pc = "calling" /\ variant = "groq"
    /\ Len(req.conversation_history) = 4
    /\ Len(messages) = 5
    /\ messages[2] = [role |-> "assistant", content |-> <<"turn ", "2">>]
    /\ messages[3] = [role |-> "user", content |-> <<"turn ", "3">>]
    /\ messages[4] = [role |-> "assistant", content |-> <<"turn ", "4">>]
    /\ messages[5].content = req.query

\* C23: a request never changes the caller's user_state: once it is answered,
\* on any path, the dict that was passed in is as it was passed, and the
\* fields extracted this turn are in the returned field_updates only.
C23_UserStateNotMutated ==
    pc \in {"calling", "done"} =>
        /\ user_state = req.user_data
        /\ (pc = "done" /\ req.endpoint = "registration" /\ result.status = "ok") =>
              \A pr \in result.body.field_updates :
                  user_state[pr[1]] = req.user_data[pr[1]]

\* three fields extracted while the caller's record is an empty object: the
\* record is still empty when the response is returned
C23_Witness ==
    /\ pc = "done" /\ req.endpoint = "registration"
    /\ req.query = ExSamMentor
    /\ req.user_data = [given |-> TRUE, name |-> None, email |-> None,
                        userType |-> None]
    /\ result.body.field_updates =
          {<<"name", Sam>>, <<"email", SamEmail>>, <<"userType", Mentor>>}
    /\ user_state.name = None /\ user_state.email = None
    /\ user_state.userType = None

(***************************************************************************)
(* Several requests in flight at once on one service object.  Each call    *)
(* has its own frame of locals (the handler's arguments, messages and      *)
(* return value); the service's client is the state they share.  A call    *)
(* can be overtaken at its collaborator call, the one place a handler can  *)
(* give way.                                                               *)
(***************************************************************************)
NumCalls == 2
Calls == 1..NumCalls

ConcurrentQueries == {ExSamMentor, ExParentEngineer}
ConcurrentUserData ==
    [given |-> TRUE, name |-> Sam, email |-> <<>>, userType |-> <<>>]

\* what the collaborator can return to call i: a text of its own, an empty
\* text, or no text
CallContents(i) == {<<"<collaborator text ", TurnNumbers[i], ">">>, <<>>, None}

IdleCall == [pc |-> "idle"]

\* the frame of a call for request r at its collaborator call, or at its end
\* when there is no client
StartedCall(r) ==
    IF client
    THEN [pc |-> "calling", req |-> r, collab |-> "pending", content |-> None,
          messages |-> IF variant = "groq"
                       THEN groq_messages(r.query, r.endpoint, r.user_data,
                                          r.conversation_history)
                       ELSE app_messages(r.query, AppContext(r)),
          result |-> NoResult]
    ELSE [pc |-> "done", req |-> r, collab |-> "unavailable", content |-> None,
          messages |-> <<>>,
          result |-> Respond(r, "unavailable", None)]

\* the frame f once its collaborator call has ended
SettledCall(f, outcome, content) ==
    [f EXCEPT !.pc = "done",
              !.collab = IF outcome = "raised" THEN "raised"
                         ELSE ContentKind(content),
              !.content = content,
              !.result = Respond(f.req, outcome, content)]

CallBegins(i, endpoint, query) ==
    /\ calls[i].pc = "idle"
    /\ calls' = [calls EXCEPT ![i] =
                    StartedCall([endpoint |-> endpoint, query |-> query,
                                 user_data |-> ConcurrentUserData,
                                 conversation_history |-> Conversation(i)])]
    /\ UNCHANGED <<variant, client, pc, req, messages, collab, attempts,
                   response_data, result, user_state, extractVars, earlier>>

CallReturns(i, content) ==
    /\ calls[i].pc = "calling"
    /\ calls' = [calls EXCEPT ![i] = SettledCall(calls[i], "returned", content)]
    /\ client' = ClientAfter(client, "returned")
    /\ UNCHANGED <<variant, pc, req, messages, collab, attempts,
                   response_data, result, user_state, extractVars, earlier>>

CallRaises(i) ==
    /\ calls[i].pc = "calling"
    /\ calls' = [calls EXCEPT ![i] = SettledCall(calls[i], "raised", None)]
    /\ client' = ClientAfter(client, "raised")
    /\ UNCHANGED <<variant, pc, req, messages, collab, attempts,
                   response_data, result, user_state, extractVars, earlier>>

\* the response of call i is on its way; its frame is gone
CallEnds(i) ==
    /\ calls[i].pc = "done"
    /\ calls' = [calls EXCEPT ![i] = IdleCall]
    /\ UNCHANGED <<variant, client, pc, req, messages, collab, attempts,
                   response_data, result, user_state, extractVars, earlier>>

InitConcurrent ==
    /\ variant \in CollaboratorVariants \cup PatternVariants
    /\ client \in BOOLEAN
    /\ client => variant \in CollaboratorVariants
    /\ pc = "idle" /\ req = NoRequest /\ messages = <<>> /\ collab = "none"
    /\ attempts = 0 /\ response_data = NoResponseData /\ result = NoResult
    /\ user_state = Unset
    /\ calls = [i \in Calls |-> IdleCall]
    /\ earlier = NoEarlier
    /\ text = <<>>
    /\ name = Unset /\ email = Unset /\ user_type = Unset /\ email_again = Unset
    /\ epc = "off"

NextConcurrent ==
    \/ \E i \in Calls, e \in {"landing", "registration"}, q \in ConcurrentQueries :
          CallBegins(i, e, q)
    \/ \E i \in Calls : \E content \in CallContents(i) : CallReturns(i, content)
    \/ \E i \in Calls : CallRaises(i)
    \/ \E i \in Calls : CallEnds(i)

SpecConcurrent == InitConcurrent /\ [][NextConcurrent]_vars

\* what the request of frame f returns when it is the only request: the
\* answer without the collaborator when the client was missing or its call
\* raised, and the answer made from the collaborator's own content otherwise
AnswerAlone(f) ==
    IF f.collab \in {"unavailable", "raised"}
    THEN Respond(f.req, "unavailable", None)
    ELSE Respond(f.req, "returned", f.content)

\* the texts of the collaborator's answers to the calls other than i
OtherCallsTexts(i) ==
    {calls[j].content : j \in {k \in Calls \ {i} : calls[k].pc = "done"}}
        \ {None, <<>>}

\* every call that is done has the result it has when run alone, made of its
\* own request and its own collaborator answer
CallsIndependent ==
    \A i \in Calls :
        calls[i].pc = "done" =>
            /\ calls[i].result = AnswerAlone(calls[i])
            /\ (calls[i].collab = "unavailable") <=> ~client
            /\ calls[i].result.status = "ok" =>
                  /\ calls[i].result.body.response \notin OtherCallsTexts(i)
                  /\ calls[i].req.endpoint = "registration" =>
                        calls[i].result.body.field_updates
                            = ExtractedFields(calls[i].req.query)

\* C24: request handling never writes the state the requests share (the
\* service's client), so in any interleaving of concurrent calls each call
\* returns what it returns when run alone, and no response holds data of
\* another request.
C24_ConcurrentCallsIndependent ==
    /\ []CallsIndependent
    /\ [][client' = client /\ variant' = variant]_vars

\* two calls done at once: a registration answered by the collaborator and a
\* landing request whose collaborator call raised, each with its own answer
C24_Witness ==
    /\ calls[1].pc = "done" /\ calls[2].pc = "done"
    /\ calls[1].req.endpoint = "registration" /\ calls[1].req.query = ExSamMentor
    /\ calls[1].collab = "text"
    /\ calls[1].result.body.response = <<"<collaborator text ", "1", ">">>
    /\ calls[2].req.endpoint = "landing" /\ calls[2].req.query = ExParentEngineer
    /\ calls[2].collab = "raised"
    /\ calls[2].result.body.response = GroqParentTemplate

(***************************************************************************)
(* A service without collaborator answering one request after another,     *)
(* while a caller keeps one of the responses to compare a later one with.  *)
(***************************************************************************)
RepeatUserDatas ==
    { [given |-> FALSE, name |-> None, email |-> None, userType |-> None],
      [given |-> TRUE, name |-> Sam, email |-> <<>>, userType |-> <<>>],
      [given |-> TRUE, name |-> Sam, email |-> SamEmail, userType |-> Mentor] }
RepeatHistories == {Conversation(0), Conversation(MaxHistory)}

\* the caller keeps the response it was given
KeepAnswer ==
    /\ pc = "done"
    /\ earlier = NoEarlier
    /\ earlier' = [req |-> req, result |-> result]
    /\ UNCHANGED <<variant, client, pc, req, messages, collab, attempts,
                   response_data, result, user_state, calls, extractVars>>

InitRepeat ==
    /\ variant \in CollaboratorVariants \cup PatternVariants
    /\ client = FALSE
    /\ ComposeIdle
    /\ text = <<>>
    /\ name = Unset /\ email = Unset /\ user_type = Unset /\ email_again = Unset
    /\ epc = "off"

NextRepeat ==
    \/ \E q \in SpecExamples, ud \in RepeatUserDatas, h \in RepeatHistories :
          landing_chat(q, ud, h)
    \/ \E q \in SpecExamples, ud \in RepeatUserDatas, h \in RepeatHistories :
          registration_chat(q, ud, h)
    \/ KeepAnswer
    \/ NextRequest

SpecRepeat == InitRepeat /\ [][NextRepeat]_vars

C26_WholeLineOnTrimmedUtterance ==
    (/\ epc # "name"
     /\ ~HasTriggerPhrase(text)
     /\ CapitalizedWords(Strip(text)))
        => name = extract_name(Strip(text))

\* where the first trigger phrase of the utterance starts, 0 if it has none
FirstTriggerStart(t) ==
    LET at == {i \in 1..Len(t) : TriggerEndAt(t, i) # 0}
    IN  IF at = {} THEN 0 ELSE Min(at)

\* the first trigger phrase is followed by whitespace and then a letter
TriggerThenLetter(t) ==
    /\ FirstTriggerStart(t) # 0
    /\ LET j == TriggerEndAt(t, FirstTriggerStart(t))
           w == RunEnd(t, j, SpaceChars)
       IN  w > j /\ w <= Len(t) /\ IsLetter(t[w])

\* the maximal run of letters and whitespace that starts at the first letter
\* after the first trigger phrase
RunAfterTrigger(t) ==
    LET w == RunEnd(t, TriggerEndAt(t, FirstTriggerStart(t)), SpaceChars)
    IN  SubSeq(t, w, RunEnd(t, w, NameChars) - 1)

AParentAndAnEngineer ==
    <<"a"," ","p","a","r","e","n","t"," ","a","n","d"," ","a","n"," ","e","n","g","i","n","e","e","r">>

\* C27: when the first trigger phrase is followed by whitespace and a
\* letter, extract_name returns the whole run of letters and whitespace from
\* that letter on, trimmed, whatever words it holds, whenever that is shorter
\* than 50 characters; "I'm a parent and an engineer" gives the name
\* "a parent and an engineer" in field_updates next to userType 'parent'.
C27_TriggerRunIsTheName ==
    Extracted =>
        /\ (TriggerThenLetter(text) /\ Len(Strip(RunAfterTrigger(text))) < 50)
              => name = Strip(RunAfterTrigger(text))
        /\ text = ExParentEngineer =>
              FieldUpdates(name, email, user_type)
                  = {<<"name", AParentAndAnEngineer>>, <<"userType", Parent>>}

C27_Witness ==
    /\ Extracted
    /\ text = ExParentEngineer
    /\ TriggerThenLetter(text)
    /\ name = AParentAndAnEngineer
    /\ user_type = Parent

\* a registration request whose collaborator call was made and which got a
\* response
RegistrationAfterCollaborator ==
    /\ pc = "done"
    /\ req.endpoint = "registration"
    /\ collab \in {"text", "empty", "missing", "raised"}
    /\ result.status = "ok"

\* the responses the same request gets for the other outcomes of the
\* collaborator call: raised when it returned, returned when it raised
OtherOutcomeAnswers ==
    {a \in (IF collab = "raised"
            THEN {Respond(req, "returned", c) : c \in CollaboratorContents}
            ELSE {Respond(req, "raised", None)}) : a.status = "ok"}

\* C28: in registration context field_updates depends on the utterance only:
\* a request whose collaborator call returns and a request with the same
\* utterance whose call raises get the same field_updates.
C28_FieldUpdatesWhateverTheCollaborator ==
    RegistrationAfterCollaborator =>
        \A a \in OtherOutcomeAnswers :
            result.body.field_updates = a.body.field_updates

C28_Witness ==
    /\ RegistrationAfterCollaborator
    /\ variant = "groq" /\ collab = "raised"
    /\ req.query = ExSamMentor
    /\ result.body.field_updates =
          {<<"name", Sam>>, <<"email", SamEmail>>, <<"userType", Mentor>>}
    /\ Respond(req, "returned", <<"<collaborator text>">>) \in OtherOutcomeAnswers

\* C29: in landing context the suggestions depend on the utterance only: the
\* list attached to the collaborator's answer is the list of the template the
\* same utterance gets when the collaborator fails or is absent.
C29_SuggestionsWhateverTheCollaborator ==
    (pc = "done" /\ req.endpoint = "landing" /\ collab = "text"
                 /\ result.status = "ok") =>
        /\ result.body.suggestions
              = Respond(req, "unavailable", None).body.suggestions
        /\ result.body.suggestions
              = Respond(req, "raised", None).body.suggestions

(***************************************************************************)
(* The endpoints of main.py, which detect the fields token by token and    *)
(* have no collaborator.                                                   *)
(***************************************************************************)
\* the indexes where a whitespace-separated word of the text starts
WordStarts(q) ==
    {i \in 1..Len(q) : ~IsSpace(q[i]) /\ (i = 1 \/ IsSpace(q[i - 1]))}

\* the last index of the word that starts at i
WordEnd(q, i) ==
    LET sp == {k \in i..Len(q) : IsSpace(q[k])}
    IN  IF sp = {} THEN Len(q) ELSE Min(sp) - 1

\* str.split()
Split(q) ==
    [n \in 1..Cardinality(WordStarts(q)) |->
        LET s == CHOOSE s \in WordStarts(q) :
                     Cardinality({t \in WordStarts(q) : t < s}) = n - 1
        IN  SubSeq(q, s, WordEnd(q, s))]

\* word.strip(".,!?")
StripPunctuation(word) ==
    LET keep == {k \in 1..Len(word) : word[k] \notin {".", ",", "!", "?"}}
    IN  IF keep = {} THEN <<>> ELSE SubSeq(word, Min(keep), Max(keep))

\* str.isalpha()
IsAlpha(s) == Len(s) >= 1 /\ \A k \in 1..Len(s) : IsLetter(s[k])

NameIs == <<"n","a","m","e"," ","i","s">>
MainTriggerWords == { <<"n","a","m","e">>, <<"i","'","m">>, <<"a","m">> }

\* the first index i with words[i].lower() a trigger word and i + 1 <
\* len(words), 0 if there is none: where the loop breaks
MainTriggerIndex(words) ==
    LET at == {i \in 1..(Len(words) - 1) : Lower(words[i]) \in MainTriggerWords}
    IN  IF at = {} THEN 0 ELSE Min(at)

\* the name detection of registration_chat: None when no name is recorded
main_detect_name(query) ==
    IF Contains(Lower(query), NameIs) \/ Contains(Lower(query), <<"i","'","m">>)
    THEN LET words == Split(query)
             i == MainTriggerIndex(words)
         IN  IF i = 0 THEN None
             ELSE IF IsAlpha(StripPunctuation(words[i + 1]))
             THEN StripPunctuation(words[i + 1])
             ELSE None
    ELSE None

\* the email detection of registration_chat
main_detect_email(query) ==
    LET words == Split(query)
        at == {i \in 1..Len(words) :
                  Contains(words[i], <<"@">>) /\ Contains(words[i], <<".">>)}
    IN  IF Contains(query, <<"@">>) /\ at # {}
        THEN StripPunctuation(words[Min(at)])
        ELSE None

main_detect_user_type(query) ==
    IF ContainsAny(Lower(query), {Parent, Child, Kid}) THEN Parent
    ELSE IF ContainsAny(Lower(query), {Mentor, Teach, Coach}) THEN Mentor
    ELSE None

MainRegistrationOpening == <<"I'm here to help you complete your registration! ">>
MainRegistrationFiller ==
    <<"I'm here to help you complete your registration! You can tell me your name, email, and whether you're a parent or mentor.">>

\* the body of registration_chat once the three detections are made
MainRegistration(n, e, u) ==
    LET field_updates ==
            (IF n # None THEN {<<"name", n>>} ELSE {})
            \cup (IF e # None THEN {<<"email", e>>} ELSE {})
            \cup (IF u # None THEN {<<"userType", u>>} ELSE {})
        response ==
            (IF n # None THEN NameAck(n) ELSE MainRegistrationOpening)
            \o (IF e # None THEN ThanksAck ELSE <<>>)
            \o (IF u = Parent THEN ParentAck
                ELSE IF u = Mentor THEN MentorAck ELSE <<>>)
    IN  [status |-> "ok",
         body |-> [response |-> IF field_updates = {}
                                THEN MainRegistrationFiller ELSE response,
                   context |-> "registration",
                   field_updates |-> field_updates]]

main_registration_chat(query) ==
    MainRegistration(main_detect_name(query), main_detect_email(query),
                     main_detect_user_type(query))

main_landing_chat(query) ==
    LET q == Lower(query)
    IN  [status |-> "ok",
         body |-> [response |-> IF ContainsAny(q, {Parent, Child, Kid})
                                THEN AppParentTemplate
                                ELSE IF ContainsAny(q, {Mentor, Teach, Coach})
                                THEN <<"Wonderful! We're excited to connect with passionate educators. MentorIQ saves mentors 60%+ of administrative time through AI-powered tools.">>
                                ELSE <<"Welcome to MentorIQ! I'm here to help you discover amazing FLL programs and mentors. What brings you here today?">>,
                   context |-> "landing",
                   suggestions |-> IF ContainsAny(q, {Parent, Child, Kid})
                                   THEN <<"Tell me about program costs",
                                          "How do I evaluate mentors?",
                                          "Take me to registration">>
                                   ELSE IF ContainsAny(q, {Mentor, Teach, Coach})
                                   THEN <<"How does the platform save time?",
                                          "What support do mentors get?",
                                          "Create my mentor profile">>
                                   ELSE <<"I'm a parent looking for programs",
                                          "I want to become a mentor",
                                          "Tell me about your platform">>]]

MaxMainWords == 4

MainVocab ==
      { <<"I","'","m">>,
        <<"I">>,
        <<"a","m">>,
        <<"N","a","m","e">>,
        <<"i","s">>,
        <<"S","a","m">>,
        <<"S","a","m","!">>,
        <<"R","2">> }

\* up to n words of the vocabulary with one space between them
RECURSIVE Sentences(_, _)
Sentences(V, n) ==
    IF n = 0 THEN {<<>>}
    ELSE LET prev == Sentences(V, n - 1)
         IN  prev \cup V \cup {s \o <<" ">> \o w : s \in prev \ {<<>>}, w \in V}

MainQueries == Sentences(MainVocab, MaxMainWords) \cup SpecExamples

\* a request to main.py's endpoint, answered in one step
MainAccept(r, answer) ==
    /\ pc = "idle"
    /\ req' = r
    /\ pc' = "done"
    /\ collab' = "unavailable"
    /\ result' = answer
    /\ UNCHANGED <<variant, client, messages, attempts, response_data,
                   user_state, calls, earlier, extractVars>>

MainLandingChat(query) ==
    MainAccept([endpoint |-> "landing", query |-> query],
               main_landing_chat(query))

MainRegistrationChat(query) ==
    MainAccept([endpoint |-> "registration", query |-> query],
               main_registration_chat(query))

InitMain ==
    /\ variant = "main"
    /\ client = FALSE
    /\ ComposeIdle
    /\ text = <<>>
    /\ name = Unset /\ email = Unset /\ user_type = Unset /\ email_again = Unset
    /\ epc = "off"

NextMain ==
    \/ \E q \in MainQueries : MainLandingChat(q)
    \/ \E q \in MainQueries : MainRegistrationChat(q)
    \/ NextRequest

SpecMain == InitMain /\ [][NextMain]_vars

\* the value recorded under key in a field_updates dict, None if it has none
FieldOf(fu, key) ==
    IF \E pr \in fu : pr[1] = key
    THEN (CHOOSE pr \in fu : pr[1] = key)[2]
    ELSE None

\* the first word of the utterance that is 'name', 'i'm' or 'am' in any
\* case, 0 if no word is
FirstTriggerWord(words) ==
    LET at == {i \in 1..Len(words) : Lower(words[i]) \in MainTriggerWords}
    IN  IF at = {} THEN 0 ELSE Min(at)

\* C30: main.py's registration_chat looks at the first whitespace-separated
\* word that is 'name', 'i'm' or 'am' (in any case) and at no later one: the
\* name recorded is the word right after it, stripped of . , ! ?, if and only
\* if that word is purely alphabetic; for "My name is Alex Rivera" the name
\* recorded is the word after 'name'.
C30_MainNameIsWordAfterFirstTrigger ==
    (pc = "done" /\ variant = "main" /\ req.endpoint = "registration") =>
        LET words == Split(req.query)
            i == FirstTriggerWord(words)
            recorded == FieldOf(result.body.field_updates, "name")
        IN  /\ IF i # 0 /\ i < Len(words)
                    /\ IsAlpha(StripPunctuation(words[i + 1]))
               THEN recorded = StripPunctuation(words[i + 1])
               ELSE recorded = None
            /\ req.query = ExMyNameIsAlexRivera => recorded = <<"i","s">>

====
